---- MODULE Spec2Model ----
(***************************************************************************)
(* Model of the MCP host CLI (src/host-cli/cli.py): the provider registry  *)
(* (MCPManager), the qualified tool names, the conversation loop of main() *)
(* and the JSON session store (ChatLogManager), together with the git      *)
(* provider (src/filesystem/git_server.py) the loop dispatches to.         *)
(*                                                                         *)
(* Python strings that the code takes apart (aliases, tool names) are      *)
(* sequences of one-character strings; texts that are only composed and    *)
(* searched are sequences of fragments.                                    *)
(***************************************************************************)
EXTENDS Integers, Sequences, FiniteSets, TLC

VARIABLES
    servers,              \* MCPManager.servers: alias -> [url]
    tools,                \* MCPManager.tools: list of [server, name]
    files,                \* chat_logs/*.json: session name -> session data
    current_session_file, \* ChatLogManager.current_session_file (name or NoFile)
    history,              \* main(): the in-memory message list sent to the model
    pc,                   \* main(): where the loop is
    resp,                 \* main(): content of the first response of the turn
    idx,                  \* main(): position of the for loop over resp.content
    handled,              \* main(): handled
    assistant_content,    \* main(): assistant_content
    tool_results,         \* main(): tool_results
    call,                 \* the manager.call_tool awaited at line 535, or NoCall
    tool_result,          \* main(): tool_result of the last normalisation
    followup,             \* main(): content of the followup response of the turn
    exc,                  \* the exception caught at line 605 / 611 in this turn
    backendCalls,         \* calls that reached a backend in this turn, in order
    modelCalls,           \* client.messages.create calls made in this turn
    now,                  \* datetime.now()
    regLog,               \* the last add_server call or routed tool call, and its outcome
    naming,               \* the alias and tool name being composed and split
    output,               \* the last /session command and what it produced
    commandCount,         \* /session commands handled so far
    mapCall,              \* the _map_parameters call being made and its results
    loaded_datasets,      \* FlightDataProcessor.loaded_datasets: filename -> dataset
    flightLog             \* the calls the flight-data server has answered, in order

vars == <<servers, tools, files, current_session_file, history, pc, resp, idx,
          handled, assistant_content, tool_results, call, tool_result, followup, exc,
          backendCalls, modelCalls, now, regLog, naming, output, commandCount,
          mapCall, loaded_datasets, flightLog>>

regVars   == <<servers, tools>>
storeVars == <<files, current_session_file>>
flightVars == <<loaded_datasets, flightLog>>
turnVars  == <<resp, idx, handled, assistant_content, tool_results, call,
               tool_result, followup, backendCalls, modelCalls>>

-----------------------------------------------------------------------------
(* Bounds of the model *)

\* a turn is started only while the in-memory history has room for a whole
\* turn (a turn appends at most TurnMessages messages)
MaxHistory == 5
\* longest content list of a model response
MaxParts == 2
\* datetime.now() is read in 0..MaxClock
MaxClock == 1
\* number of /session commands the user types
MaxCommands == 2
\* number of add_server calls explored by the registry specification
MaxRegistrations == 3
\* longest alias and longest tool name composed by the naming specification
MaxAliasLen == 2
MaxNameLen == 3
\* most arguments of a tool request explored by the mapping specification
MaxArgs == 2

-----------------------------------------------------------------------------
(* Strings *)

\* Python's None where a string is expected
None == <<"None">>

\* the separator of f"{t['server']}_{t['name']}" and of split('_', 1)
SEP == "_"

\* `if s:` for s a string or None
Truthy(s) == s # None /\ s # <<>>

HasSep(s) == \E i \in 1..Len(s) : s[i] = SEP

\* index of the first separator of s (s has one)
FirstSep(s) == CHOOSE i \in 1..Len(s) : s[i] = SEP /\ \A j \in 1..(i - 1) : s[j] # SEP

\* index of the last separator of s (s has one)
LastSep(s) == CHOOSE i \in 1..Len(s) : s[i] = SEP /\ \A j \in (i + 1)..Len(s) : s[j] # SEP

\* f"{t['server']}_{t['name']}"
claude_tool_name(server, name) == server \o <<SEP>> \o name

\* a wrong parse_tool_name: splits on the last separator (rsplit)
parse_tool_name_rsplit(name) ==
    IF HasSep(name)
    THEN <<SubSeq(name, 1, LastSep(name) - 1), SubSeq(name, LastSep(name) + 1, Len(name))>>
    ELSE <<None, name>>

\* MCPManager.parse_tool_name: split('_', 1); two parts -> (alias, tool),
\* else (None, name)
parse_tool_name(name) ==
    IF HasSep(name)
    THEN <<SubSeq(name, 1, FirstSep(name) - 1), SubSeq(name, FirstSep(name) + 1, Len(name))>>
    ELSE <<None, name>>

-----------------------------------------------------------------------------
(* Provider registry: MCPManager *)

\* the state add_server leaves in self.servers: the alias is (re)bound to the
\* target before the provider is contacted
add_server_servers(srv, alias, target) ==
    [a \in (DOMAIN srv) \cup {alias} |-> IF a = alias THEN [url |-> target] ELSE srv[a]]

\* the state add_server leaves in self.tools: one descriptor appended per
\* listed tool (description and input_schema are carried along unread by the
\* routing and are left out)
add_server_tools(tls, alias, listed) ==
    tls \o [i \in 1..Len(listed) |-> [server |-> alias, name |-> listed[i]]]

\* MCPManager.get_tools_for_claude: the names advertised to the model
get_tools_for_claude(tls) ==
    [i \in 1..Len(tls) |-> claude_tool_name(tls[i].server, tls[i].name)]

\* a wrong _map_parameters: every key is passed through under its own name
_map_parameters_identity(tool_name, params) == params

\* tool names of the rename table
read_file        == <<"read", SEP, "file">>
write_file       == <<"write", SEP, "file">>
delete_file      == <<"delete", SEP, "file">>
create_directory == <<"create", SEP, "directory">>
list_directory   == <<"list", SEP, "directory">>
git_init         == <<"git", SEP, "init">>
git_add          == <<"git", SEP, "add">>
git_commit       == <<"git", SEP, "commit">>
git_status       == <<"git", SEP, "status">>
git_log          == <<"git", SEP, "log">>
git_branch       == <<"git", SEP, "branch">>
git_diff         == <<"git", SEP, "diff">>
search_cheapest_flights == <<"search", SEP, "cheapest", SEP, "flights">>
search_flights   == <<"search", SEP, "flights">>

\* the empty dict
EmptyDict == <<>>

\* parameter_mappings.get(tool_name, {}): supplied key -> backend key, as a
\* function
parameter_mappings(tool_name) ==
    CASE tool_name \in {create_directory, list_directory} -> ("path" :> "directory_path")
      [] tool_name \in {write_file, read_file, delete_file} -> ("path" :> "file_path")
      [] tool_name \in {git_init, git_add, git_commit, git_status, git_log,
                        git_branch, git_diff} -> ("directory" :> "repo_path")
      [] tool_name \in {search_cheapest_flights, search_flights} ->
             ("origin" :> "from_city" @@ "destination" :> "to_city")
      [] OTHER -> EmptyDict

\* d[k] = v on a dict kept as a list of <<key, value>> in insertion order: an
\* existing key keeps its place and takes the new value
DictSet(d, k, v) ==
    IF \E i \in 1..Len(d) : d[i][1] = k
    THEN [i \in 1..Len(d) |-> IF d[i][1] = k THEN <<k, v>> ELSE d[i]]
    ELSE Append(d, <<k, v>>)

\* a wrong mapping.get(key, key): a backend key is renamed back to the key it
\* is the rename of
MappedKey_inverse(mapping, key) ==
    IF key \in DOMAIN mapping THEN mapping[key]
    ELSE IF \E k \in DOMAIN mapping : mapping[k] = key
         THEN CHOOSE k \in DOMAIN mapping : mapping[k] = key
         ELSE key

\* mapping.get(key, key)
MappedKey(mapping, key) == IF key \in DOMAIN mapping THEN mapping[key] ELSE key

RECURSIVE MapFrom(_, _, _, _)
\* the for loop of _map_parameters from item i on, mapped_params so far in acc
MapFrom(mapping, params, i, acc) ==
    IF i > Len(params) THEN acc
    ELSE MapFrom(mapping, params, i + 1,
                 IF MappedKey(mapping, params[i][1]) # "None"
                 THEN DictSet(acc, MappedKey(mapping, params[i][1]), params[i][2])
                 ELSE acc)

\* MCPManager._map_parameters
_map_parameters(tool_name, params) ==
    MapFrom(parameter_mappings(tool_name), params, 1, EmptyDict)

-----------------------------------------------------------------------------
(* Python values and JSON *)

\* a Python value is kept as its type and its JSON text (its repr for a value
\* json cannot encode)
PyNone == [py |-> "NoneType", json |-> <<"null">>]

\* an object json.dumps has no encoder for (CallToolResult.data may be any
\* hydrated object, e.g. a datetime)
PyObject == [py |-> "object", json |-> <<"datetime(...)">>]

PyDict(text) == [py |-> "dict", json |-> text]

\* `if v:` for the values above
PyTruthy(v) == v.py # "NoneType" /\ v.json # <<"{}">>

\* the texts of the model that are JSON documents
JsonTexts == { <<"{\"success\": true}">>, <<"{\"error\": \"File not found\"}">> }

\* json.loads(text): the value, or JSONDecodeError
json_loads(text) ==
    IF text \in JsonTexts
    THEN [ok |-> TRUE, value |-> PyDict(text)]
    ELSE [ok |-> FALSE, value |-> PyNone]

\* {"response": text}
ResponseDict(text) == PyDict(<<"{\"response\": \"">> \o text \o <<"\"}">>)

\* json.dumps(v): the text, or TypeError for a value without encoder
json_dumps(v) ==
    IF v.py = "object"
    THEN [ok |-> FALSE, text |-> <<>>]
    ELSE [ok |-> TRUE, text |-> v.json]

-----------------------------------------------------------------------------
(* The git provider: src/filesystem/git_server.py *)

\* what the git subprocess of one run_git_command does
ProcOutcomes == {"output", "empty", "timeout", "failed"}

TimedOutText == "Git command timed out after "

\* run_git_command: stdout, or the GitError raised
run_git_command(args, timeout, outcome) ==
    CASE outcome = "output"  -> [ok |-> TRUE,  text |-> <<"stdout of git ", args>>]
      [] outcome = "empty"   -> [ok |-> TRUE,  text |-> <<>>]
      [] outcome = "timeout" -> [ok |-> FALSE,
                                 text |-> <<TimedOutText, timeout, " seconds: git ", args>>]
      [] outcome = "failed"  -> [ok |-> FALSE,
                                 text |-> <<"Git command failed: ", "stderr of git ", args>>]

\* validate_git_repo
validate_git_repo(outcome) == run_git_command("rev-parse --git-dir", "5", outcome).ok

\* except GitError as e: f"Git error: {str(e)}"
GitErrorText(r) == <<"Git error: ">> \o r.text

\* call_tool of the git server, for the processes' outcomes o (validation,
\* command, fallback command): the text of the TextContent it returns
git_call_tool(name, o) ==
    IF name # git_init /\ ~validate_git_repo(o[1])
    THEN <<"Error: ", ".", " is not a valid Git repository. Use git_init to create one.">>
    ELSE CASE name = git_status ->
                LET first == run_git_command("status --porcelain -b", "30", o[2])
                    second == run_git_command("status", "30", o[3])
                IN  IF first.ok
                    THEN IF first.text = <<>> THEN <<"Working tree clean">>
                         ELSE <<"Repository Status:\n">> \o first.text
                    ELSE IF second.ok THEN second.text ELSE GitErrorText(second)
           [] name = git_log ->
                LET out == run_git_command("log --max-count=10", "30", o[2])
                IN  IF ~out.ok THEN GitErrorText(out)
                    ELSE IF out.text = <<>> THEN <<"No commits found">> ELSE out.text
           [] name = git_init ->
                LET out == run_git_command("init", "30", o[2])
                IN  IF ~out.ok THEN GitErrorText(out)
                    ELSE <<"Initialized Git repository at ", ".">>
           [] OTHER -> <<"Unknown tool: ">> \o name

-----------------------------------------------------------------------------
(* Session store: ChatLogManager *)

\* seconds of a clock reading: strftime("%Y%m%d_%H%M%S") drops what
\* isoformat() keeps
TicksPerSecond == 1

\* f"chat_{timestamp}"
AutoName(t) == <<"chat_", ToString(t \div TicksPerSecond)>>

\* message content: a str or a list of segments
Str(text)  == [isList |-> FALSE, text |-> text, list |-> <<>>]
List(segs) == [isList |-> TRUE,  text |-> <<>>, list |-> segs]

\* a wrong save_session_data: writes message_count as it was loaded
save_session_data_stale(fs, cur, session_data) ==
    [n \in (DOMAIN fs) \cup {cur} |->
        IF n = cur THEN [session_data EXCEPT !.last_updated = now] ELSE fs[n]]

\* ChatLogManager.save_session_data (cur is set): the files after the write
save_session_data(fs, cur, session_data) ==
    [n \in (DOMAIN fs) \cup {cur} |->
        IF n = cur
        THEN [session_data EXCEPT !.last_updated = now,
                                  !.message_count = Len(session_data.history)]
        ELSE fs[n]]

\* session_name if given, else the timestamp name
NewSessionName(session_name) ==
    IF Truthy(session_name) THEN session_name ELSE AutoName(now)

\* a wrong create_new_session: a session that is already stored is kept as it
\* is
create_new_session_keep(fs, session_name) ==
    IF NewSessionName(session_name) \in DOMAIN fs THEN fs
    ELSE save_session_data(fs, NewSessionName(session_name),
             [session_name  |-> NewSessionName(session_name),
              created_at    |-> now,
              last_updated  |-> now,
              message_count |-> 0,
              history       |-> <<>>])

\* ChatLogManager.create_new_session: the files after it
create_new_session(fs, session_name) ==
    save_session_data(fs, NewSessionName(session_name),
        [session_name  |-> NewSessionName(session_name),
         created_at    |-> now,
         last_updated  |-> now,
         message_count |-> 0,
         history       |-> <<>>])

SessionNotFoundError == "FileNotFoundError: Session not found"
NoError              == "none"

\* a wrong load_session: a session that is not stored is loaded as an empty
\* one
load_session_empty(fs, session_name) ==
    [ok |-> TRUE, error |-> NoError,
     data |-> IF session_name \in DOMAIN fs THEN fs[session_name]
              ELSE [session_name  |-> session_name,
                    created_at    |-> now,
                    last_updated  |-> now,
                    message_count |-> 0,
                    history       |-> <<>>]]

\* ChatLogManager.load_session: the stored data, or FileNotFoundError (when
\* ok, the session becomes the current one)
load_session(fs, session_name) ==
    IF session_name \in DOMAIN fs
    THEN [ok |-> TRUE,  error |-> NoError, data |-> fs[session_name]]
    ELSE [ok |-> FALSE, error |-> SessionNotFoundError, data |-> <<>>]

\* append_message and load_current_session raise ValueError unless this holds
CanAppend(fs, cur) == cur # None /\ cur \in DOMAIN fs

\* the message dict of append_message (a message without metadata has
\* metadata "none"; its timestamp, which only export_session prints, is left
\* out)
Message(role, content, metadata) ==
    [role |-> role, content |-> content, metadata |-> metadata]

\* ChatLogManager.append_message (CanAppend holds): the files after it
append_message(fs, cur, role, content, metadata) ==
    save_session_data(fs, cur,
        [fs[cur] EXCEPT !.history = Append(@, Message(role, content, metadata))])

\* the {"role", "content"} dict main() keeps in history
ClaudeMessage(role, content) == [role |-> role, content |-> content]

-----------------------------------------------------------------------------
(* Providers registered by setup_mcp and what they answer *)

local   == <<"local">>
tounge  == <<"tounge">>
serving == <<"serving">>
game    == <<"game">>
jpgame  == <<"jpgame">>
remote  == <<"remote">>

\* the aliases of setup_mcp, in registration order, and their targets
SetupAliases == <<local, tounge, serving, game, jpgame, remote>>
SetupTargets == <<"../filesystem/mcp_server.py", "../filesystem/tounge.py",
                  "../filesystem/git_server.py",
                  "../Repository/MCP_VIDEOGAMES_REC_INFO/server/mcp_server.py",
                  "../Repository/MCP_VideogameStats_Server/games/server.py",
                  "https://flightbookingU.fastmcp.app/mcp">>

\* the tools each provider lists (those the model of the loop calls)
SetupListing(alias) ==
    CASE alias = local   -> <<read_file>>
      [] alias = serving -> <<git_status, git_log>>
      [] OTHER           -> <<>>

RECURSIVE SetupServers(_)
\* self.servers after the first n add_server calls of setup_mcp
SetupServers(n) ==
    IF n = 0 THEN <<>>
    ELSE add_server_servers(SetupServers(n - 1), SetupAliases[n], SetupTargets[n])

RECURSIVE SetupTools(_)
\* self.tools after the first n add_server calls of setup_mcp
SetupTools(n) ==
    IF n = 0 THEN <<>>
    ELSE add_server_tools(SetupTools(n - 1), SetupAliases[n], SetupListing(SetupAliases[n]))

\* a content item of a CallToolResult; only a TextContent has .text
TextContent(text) == [type |-> "text",  text |-> text]
ImageContent      == [type |-> "image", text |-> <<>>]

\* str(first_content), str(raw_result): the repr of the object
ReprOf(obj) == <<"repr(", obj.type, ")">>

RawResult(content, data) == [type |-> "CallToolResult", content |-> content, data |-> data]

\* the results a FastMCP provider may return
ProviderResults ==
    { RawResult(<<TextContent(<<"{\"success\": true}">>)>>, PyDict(<<"{\"success\": true}">>)),
      RawResult(<<TextContent(<<"plain text">>)>>, PyNone),
      RawResult(<<ImageContent>>, PyNone),
      RawResult(<<>>, PyDict(<<"{\"success\": true}">>)),
      RawResult(<<>>, PyObject),
      RawResult(<<>>, PyNone) }

\* the results the git provider may return for a tool
GitResults(tool) ==
    { RawResult(<<TextContent(git_call_tool(tool, o))>>, PyNone) :
        o \in [1..3 -> ProcOutcomes] }

\* what the backend behind a registered alias may answer to a call
BackendResults(alias, tool) ==
    IF alias = serving THEN GitResults(tool) ELSE ProviderResults

-----------------------------------------------------------------------------
(* Conversation loop: main() *)

\* messages a turn appends to history at most: lines 507, 573, 577, 596
TurnMessages == 4

NoCall == [id |-> "", alias |-> None, tool |-> None, params |-> EmptyDict]

TextPart(text) == [type |-> "text", text |-> text]
ToolUse(id, name, input) == [type |-> "tool_use", id |-> id, name |-> name, input |-> input]

\* lines 541-558: tool_result from raw_result
Normalize(raw) ==
    IF raw.content # <<>>
    THEN IF raw.content[1].type = "text"
         THEN IF json_loads(raw.content[1].text).ok
              THEN json_loads(raw.content[1].text).value
              ELSE ResponseDict(raw.content[1].text)
         ELSE ResponseDict(ReprOf(raw.content[1]))
    ELSE IF PyTruthy(raw.data)
         THEN raw.data
         ELSE ResponseDict(ReprOf(raw))

\* lines 563-567: the segment collected for a tool call
ToolResultSegment(id, content) ==
    [type |-> "tool_result", tool_use_id |-> id, content |-> content]

RECURSIVE JoinText(_)
\* "".join([p.text for p in content if p.type == "text"])
JoinText(content) ==
    IF content = <<>> THEN <<>>
    ELSE (IF Head(content).type = "text" THEN Head(content).text ELSE <<>>)
         \o JoinText(Tail(content))

\* not text.strip()
IsBlank(text) == \A i \in 1..Len(text) : text[i] \in {"", " ", "\n"}

FallbackText == <<"Task completed successfully.">>

UnknownProviderError == "ValueError: No such MCP server"
NoSessionError       == "ValueError: No active session or session file missing"
BackendError         == "ToolError: backend call failed"
SerializationError   == "TypeError: Object is not JSON serializable"
ModelError           == "APIError: model call failed"
NoExc                == "none"

\* except Exception as e (line 605): the message is logged and the loop goes
\* on; when the logging raises too, the outer handler (line 611) ends main()
Raise(e, fs) ==
    IF CanAppend(fs, current_session_file)
    THEN /\ files' = append_message(fs, current_session_file, "system",
                                    Str(<<"Error: ", e>>), "error")
         /\ pc' = "AwaitingInput"
         /\ exc' = e
    ELSE /\ files' = fs
         /\ pc' = "Failed"
         /\ exc' = NoSessionError

\* lines 484-487: empty input or "exit"
Exit ==
    /\ pc = "AwaitingInput"
    /\ pc' = "Ended"
    /\ UNCHANGED <<regVars, storeVars, turnVars, history, exc, now, regLog, naming, mapCall, flightVars, output, commandCount>>

\* lines 505-507: a user message starts a turn
UserMessage(u) ==
    /\ pc = "AwaitingInput"
    /\ Len(history) + TurnMessages <= MaxHistory
    /\ IF CanAppend(files, current_session_file)
       THEN /\ files' = append_message(files, current_session_file, "user", Str(u), "none")
            /\ history' = Append(history, ClaudeMessage("user", Str(u)))
            /\ pc' = "ModelResponding"
            /\ exc' = NoExc
       ELSE /\ pc' = "Failed"
            /\ exc' = NoSessionError
            /\ UNCHANGED <<files, history>>
    /\ resp' = <<>> /\ idx' = 0 /\ handled' = FALSE
    /\ assistant_content' = <<>> /\ tool_results' = <<>>
    /\ call' = NoCall /\ tool_result' = PyNone /\ followup' = <<>>
    /\ backendCalls' = <<>> /\ modelCalls' = 0
    /\ UNCHANGED <<regVars, current_session_file, now, regLog, naming, mapCall, flightVars, output, commandCount>>

\* lines 510-519: the model answers with the content r
ModelResponds(r) ==
    /\ pc = "ModelResponding"
    /\ resp' = r /\ idx' = 1 /\ handled' = FALSE
    /\ assistant_content' = <<>> /\ tool_results' = <<>>
    /\ modelCalls' = modelCalls + 1
    /\ pc' = "ProcessingParts"
    /\ UNCHANGED <<regVars, storeVars, history, call, tool_result, followup, exc,
                   backendCalls, now, regLog, naming, mapCall, flightVars, output, commandCount>>

\* lines 510, 605-609: the model call raises
ModelFails ==
    /\ pc = "ModelResponding"
    /\ modelCalls' = modelCalls + 1
    /\ Raise(ModelError, files)
    /\ UNCHANGED <<regVars, current_session_file, history, resp, idx, handled,
                   assistant_content, tool_results, call, tool_result, followup,
                   backendCalls, now, regLog, naming, mapCall, flightVars, output, commandCount>>

\* a wrong lookup: every alias is taken to be registered
IsRegisteredAny(srv, alias) == TRUE

\* call_tool, lines 273-275: servers.get(server_alias) is there
IsRegistered(srv, alias) == alias \in DOMAIN srv

\* a wrong dispatch: the call is started as a task and the for loop goes on
\* with the next part
create_task_call_tool(i) == [pc |-> "ProcessingParts", idx |-> i + 1]

\* line 535: `await manager.call_tool(...)` keeps the for loop at part i
\* until the backend has answered
await_call_tool(i) == [pc |-> "Dispatching", idx |-> i]

\* lines 522-538: one step of the for loop, up to the await of call_tool
ProcessPart ==
    /\ pc = "ProcessingParts"
    /\ idx <= Len(resp)
    /\ assistant_content' = Append(assistant_content, resp[idx])
    /\ IF resp[idx].type = "text"
       THEN /\ idx' = idx + 1
            /\ UNCHANGED <<files, pc, exc, call, backendCalls>>
       ELSE LET server_alias == parse_tool_name(resp[idx].name)[1]
                tool_name    == parse_tool_name(resp[idx].name)[2]
                this == [id |-> resp[idx].id, alias |-> server_alias, tool |-> tool_name,
                         params |-> _map_parameters(tool_name, resp[idx].input)]
            IN  IF Truthy(server_alias)
                THEN /\ call' = this
                     /\ IF IsRegistered(servers, server_alias)
                        THEN /\ backendCalls' = Append(backendCalls, this)
                             /\ pc' = await_call_tool(idx).pc
                             /\ idx' = await_call_tool(idx).idx
                             /\ UNCHANGED <<files, exc>>
                        ELSE /\ Raise(UnknownProviderError, files)
                             /\ UNCHANGED <<backendCalls, idx>>
                ELSE /\ idx' = idx + 1
                     /\ UNCHANGED <<files, pc, exc, call, backendCalls>>
    /\ UNCHANGED <<regVars, current_session_file, history, resp, handled,
                   tool_results, tool_result, followup, modelCalls, now, regLog, naming, mapCall, flightVars, output, commandCount>>

\* lines 535-568: the backend answers raw and the result is collected
BackendReturns(raw) ==
    /\ pc = "Dispatching"
    /\ tool_result' = Normalize(raw)
    /\ IF json_dumps(Normalize(raw)).ok
       THEN /\ tool_results' = Append(tool_results,
                                 ToolResultSegment(call.id, json_dumps(Normalize(raw)).text))
            /\ handled' = TRUE
            /\ idx' = idx + 1
            /\ pc' = "ProcessingParts"
            /\ UNCHANGED <<files, exc>>
       ELSE /\ Raise(SerializationError, files)
            /\ UNCHANGED <<tool_results, handled, idx>>
    /\ UNCHANGED <<regVars, current_session_file, history, resp, assistant_content,
                   call, followup, backendCalls, modelCalls, now, regLog, naming, mapCall, flightVars, output, commandCount>>

\* lines 282, 535, 605-609: the backend call raises (the transport fails or
\* the provider reports an error result)
BackendRaises ==
    /\ pc = "Dispatching"
    /\ Raise(BackendError, files)
    /\ UNCHANGED <<regVars, current_session_file, history, turnVars, now, regLog, naming, mapCall, flightVars, output, commandCount>>

\* a wrong end of the for loop: the branch of lines 571-597 is taken whether
\* or not a tool was handled
EndOfParts_always_followup ==
    /\ pc = "ProcessingParts"
    /\ idx > Len(resp)
    /\ CanAppend(files, current_session_file)
    /\ history' = history \o <<ClaudeMessage("assistant", List(assistant_content)),
                                ClaudeMessage("user", List(tool_results))>>
    /\ files' = append_message(
                   append_message(files, current_session_file,
                                  "assistant", List(assistant_content), "has_tool_calls"),
                   current_session_file, "user", List(tool_results), "tool_results")
    /\ pc' = "ModelRespondingFollowup"
    /\ UNCHANGED <<regVars, current_session_file, turnVars, exc, now, regLog, naming,
                   mapCall, flightVars, output, commandCount>>

\* lines 570-578 and 599-603: after the for loop, when json.dump encodes the
\* content parts the model returned and the write of line 574 succeeds
EndOfParts ==
    /\ pc = "ProcessingParts"
    /\ idx > Len(resp)
    /\ IF handled
       THEN LET a == List(assistant_content)
                t == List(tool_results)
            IN  IF CanAppend(files, current_session_file)
                THEN /\ history' = history \o <<ClaudeMessage("assistant", a),
                                                 ClaudeMessage("user", t)>>
                     /\ files' = append_message(
                                    append_message(files, current_session_file,
                                                   "assistant", a, "has_tool_calls"),
                                    current_session_file, "user", t, "tool_results")
                     /\ pc' = "ModelRespondingFollowup"
                     /\ UNCHANGED exc
                ELSE /\ history' = Append(history, ClaudeMessage("assistant", a))
                     /\ Raise(NoSessionError, files)
       ELSE /\ history' = Append(history, ClaudeMessage("assistant", Str(JoinText(resp))))
            /\ IF CanAppend(files, current_session_file)
               THEN /\ files' = append_message(files, current_session_file, "assistant",
                                               Str(JoinText(resp)), "none")
                    /\ pc' = "AwaitingInput"
                    /\ UNCHANGED exc
               ELSE Raise(NoSessionError, files)
    /\ UNCHANGED <<regVars, current_session_file, turnVars, now, regLog, naming, mapCall, flightVars, output, commandCount>>

UnreadableSessionError == "JSONDecodeError: session file is not valid JSON"

\* lines 573-574, 64-65 and 605-613: after the for loop of a turn with tool
\* calls, when the content parts are objects json.dump has no encoder for
\* (they are objects of the model client's library). save_session_data has
\* opened the session file for writing when json.dump raises TypeError, so
\* the file no longer holds a session; the handler of line 605 then fails to
\* read it for its own append, and the outer handler ends main()
EndOfPartsWriteFails ==
    /\ pc = "ProcessingParts"
    /\ idx > Len(resp)
    /\ handled
    /\ CanAppend(files, current_session_file)
    /\ history' = Append(history, ClaudeMessage("assistant", List(assistant_content)))
    /\ files' = [n \in (DOMAIN files) \ {current_session_file} |-> files[n]]
    /\ pc' = "Failed"
    /\ exc' = UnreadableSessionError
    /\ UNCHANGED <<regVars, current_session_file, turnVars, now, regLog, naming, mapCall, flightVars, output, commandCount>>

\* a wrong text_response: the joined text is kept whatever it is
text_response_joined(content) == JoinText(content)

\* lines 588-593: the text of the followup response, or the fallback
text_response(content) ==
    IF IsBlank(JoinText(content)) THEN FallbackText ELSE JoinText(content)

\* a wrong followup: the content of the followup response is processed like
\* the first response, its tool requests being dispatched in another round
FollowupResponds_chained(f) ==
    /\ pc = "ModelRespondingFollowup"
    /\ modelCalls' = modelCalls + 1
    /\ followup' = f
    /\ resp' = f /\ idx' = 1 /\ handled' = FALSE
    /\ assistant_content' = <<>> /\ tool_results' = <<>>
    /\ pc' = "ProcessingParts"
    /\ UNCHANGED <<regVars, storeVars, history, call, tool_result, exc, backendCalls,
                   now, regLog, naming, mapCall, flightVars, output, commandCount>>

\* lines 581-597: the model answers the tool results with the content f
FollowupResponds(f) ==
    /\ pc = "ModelRespondingFollowup"
    /\ modelCalls' = modelCalls + 1
    /\ followup' = f
    /\ history' = Append(history, ClaudeMessage("assistant", Str(text_response(f))))
    /\ IF CanAppend(files, current_session_file)
       THEN /\ files' = append_message(files, current_session_file, "assistant",
                                       Str(text_response(f)), "none")
            /\ pc' = "AwaitingInput"
            /\ UNCHANGED exc
       ELSE Raise(NoSessionError, files)
    /\ UNCHANGED <<regVars, current_session_file, resp, idx, handled, assistant_content,
                   tool_results, call, tool_result, backendCalls, now, regLog, naming, mapCall, flightVars, output, commandCount>>

\* lines 581, 605-609: the followup model call raises
FollowupFails ==
    /\ pc = "ModelRespondingFollowup"
    /\ modelCalls' = modelCalls + 1
    /\ Raise(ModelError, files)
    /\ UNCHANGED <<regVars, current_session_file, history, resp, idx, handled,
                   assistant_content, tool_results, call, tool_result, followup,
                   backendCalls, now, regLog, naming, mapCall, flightVars, output, commandCount>>

\* time passes between two readings of datetime.now()
Tick ==
    /\ now < MaxClock
    /\ now' = now + 1
    /\ UNCHANGED <<regVars, storeVars, turnVars, history, pc, exc, regLog, naming, mapCall, flightVars, output, commandCount>>

-----------------------------------------------------------------------------
(* /session commands: handle_session_commands (every exception is caught and
   reported, and the loop continues) *)

\* the last /session command: its action and argument, and what it printed
CommandOutput(kind, arg, names, session, messages, error) ==
    [kind |-> kind, arg |-> arg, names |-> names, session |-> session,
     messages |-> messages, error |-> error]

NoOutput == CommandOutput("none", None, <<>>, None, 0, NoError)

\* lines 381-385: /session new [name]; the in-memory history is kept as it is
SessionNew(session_name) ==
    /\ pc = "AwaitingInput"
    /\ commandCount < MaxCommands
    /\ commandCount' = commandCount + 1
    /\ files' = create_new_session(files, session_name)
    /\ current_session_file' = NewSessionName(session_name)
    /\ output' = CommandOutput("new", session_name, <<>>, NewSessionName(session_name),
                               0, NoError)
    /\ UNCHANGED <<regVars, turnVars, history, pc, exc, now, regLog, naming, mapCall, flightVars>>

\* lines 495-502: the loaded history in Claude format
claude_history(h) == [i \in 1..Len(h) |-> ClaudeMessage(h[i].role, h[i].content)]

\* lines 387-395 and 493-502: /session load <name>
SessionLoad(session_name) ==
    /\ pc = "AwaitingInput"
    /\ commandCount < MaxCommands
    /\ commandCount' = commandCount + 1
    /\ LET loaded == load_session(files, session_name)
       IN  IF loaded.ok
           THEN /\ current_session_file' = session_name
                /\ history' = claude_history(loaded.data.history)
                /\ output' = CommandOutput("load", session_name, <<>>, session_name,
                                           loaded.data.message_count, NoError)
           ELSE /\ output' = CommandOutput("load", session_name, <<>>, None, 0,
                                           loaded.error)
                /\ UNCHANGED <<current_session_file, history>>
    /\ UNCHANGED <<regVars, turnVars, files, pc, exc, now, regLog, naming, mapCall, flightVars>>

\* a wrong list_sessions: the sessions in the order glob yields them
SortedListings_unsorted(fs) ==
    { l \in [1..Cardinality(DOMAIN fs) -> DOMAIN fs] :
        \A i, j \in DOMAIN l : i # j => l[i] # l[j] }

\* the orders in which sorted(..., key=last_updated, reverse=True) may return
\* the stored sessions: glob yields them in any order and the sort is stable
SortedListings(fs) ==
    { l \in [1..Cardinality(DOMAIN fs) -> DOMAIN fs] :
        /\ \A i, j \in DOMAIN l : i # j => l[i] # l[j]
        /\ \A i, j \in DOMAIN l : i < j => fs[l[i]].last_updated >= fs[l[j]].last_updated }

\* lines 397-408: /session list
SessionList ==
    /\ pc = "AwaitingInput"
    /\ commandCount < MaxCommands
    /\ commandCount' = commandCount + 1
    /\ \E l \in SortedListings(files) :
          output' = CommandOutput("list", None, l, None, 0, NoError)
    /\ UNCHANGED <<regVars, storeVars, turnVars, history, pc, exc, now, regLog, naming, mapCall, flightVars>>

\* lines 410-419: /session delete <name>; current_session_file is not touched
SessionDelete(session_name) ==
    /\ pc = "AwaitingInput"
    /\ commandCount < MaxCommands
    /\ commandCount' = commandCount + 1
    /\ files' = [n \in (DOMAIN files) \ {session_name} |-> files[n]]
    /\ output' = CommandOutput("delete", session_name, <<>>, None, 0,
                               IF session_name \in DOMAIN files THEN NoError
                               ELSE "Session not found")
    /\ UNCHANGED <<regVars, turnVars, current_session_file, history, pc, exc, now,
                   regLog, naming, mapCall, flightVars>>

\* lines 421-428 and 123-148: /session export <name>; export_session reads the
\* session through load_session, which makes it the current one
SessionExport(session_name) ==
    /\ pc = "AwaitingInput"
    /\ commandCount < MaxCommands
    /\ commandCount' = commandCount + 1
    /\ LET loaded == load_session(files, session_name)
       IN  IF loaded.ok
           THEN /\ current_session_file' = session_name
                /\ output' = CommandOutput("export", session_name, <<>>, session_name,
                                           loaded.data.message_count, NoError)
           ELSE /\ output' = CommandOutput("export", session_name, <<>>, None, 0,
                                           loaded.error)
                /\ UNCHANGED current_session_file
    /\ UNCHANGED <<regVars, turnVars, files, history, pc, exc, now, regLog, naming, mapCall, flightVars>>

-----------------------------------------------------------------------------
(* What the user and the model may say *)

UserTexts == { <<"hello">> }

\* a registered alias with one of its tools, the subprocess-backed git
\* provider, an alias nobody registered, and a name without separator
local_read_file    == claude_tool_name(local, read_file)
serving_git_status == claude_tool_name(serving, git_status)
ghost_tool         == claude_tool_name(<<"ghost">>, <<"tool">>)
readfile           == <<"readfile">>

PartShapes ==
    { TextPart(<<"I will look. ">>),
      ToolUse("", local_read_file, << <<"path", "notes.txt">> >>),
      ToolUse("", serving_git_status, EmptyDict),
      ToolUse("", ghost_tool, EmptyDict),
      ToolUse("", readfile, EmptyDict) }

\* the model gives every tool request of a response its own id
WithIds(content) ==
    [i \in 1..Len(content) |->
        IF content[i].type = "tool_use"
        THEN ToolUse(ToString(i), content[i].name, content[i].input)
        ELSE content[i]]

\* the contents a first response may have
Responses ==
    { WithIds(c) : c \in UNION { [1..n -> PartShapes] : n \in 1..MaxParts } }
    \cup { <<TextPart(<<"I will look. ">>), TextPart(<<"Nothing to do.">>)>> }

\* the contents a followup response may have
Followups ==
    { <<TextPart(<<"Done.">>)>>,
      <<TextPart(<<" ">>)>>,
      <<TextPart(<<"Done">>), TextPart(<<" and done.">>)>>,
      <<ToolUse("1", local_read_file, EmptyDict)>> }

-----------------------------------------------------------------------------
(* The conversation loop after setup_mcp() and create_new_session() *)

IdleNaming == [step |-> "idle", alias |-> <<>>, tool |-> <<>>,
               qualified |-> <<>>, parsed |-> <<None, <<>>>>]
IdleMapCall == [step |-> "idle", tool_name |-> None, params |-> EmptyDict,
                mapped_params |-> EmptyDict, again |-> EmptyDict,
                reordered |-> EmptyDict, mapped_reordered |-> EmptyDict]
IdleRegLog == [op |-> "none", n |-> 0, alias |-> None, tool |-> None, by |-> None,
               wasRegistered |-> FALSE, outcome |-> "none"]

Init ==
    /\ now = 0
    /\ servers = SetupServers(Len(SetupAliases))
    /\ tools = SetupTools(Len(SetupAliases))
    /\ files = create_new_session(<<>>, None)
    /\ current_session_file = AutoName(now)
    /\ history = <<>>
    /\ pc = "AwaitingInput"
    /\ resp = <<>> /\ idx = 0 /\ handled = FALSE
    /\ assistant_content = <<>> /\ tool_results = <<>>
    /\ call = NoCall /\ tool_result = PyNone /\ followup = <<>>
    /\ exc = NoExc
    /\ backendCalls = <<>> /\ modelCalls = 0
    /\ regLog = IdleRegLog
    /\ naming = IdleNaming
    /\ mapCall = IdleMapCall
    /\ loaded_datasets = <<>>
    /\ flightLog = <<>>
    /\ output = NoOutput
    /\ commandCount = 0

Next ==
    \/ Exit
    \/ \E u \in UserTexts : UserMessage(u)
    \/ \E r \in Responses : ModelResponds(r)
    \/ ModelFails
    \/ ProcessPart
    \/ \E raw \in BackendResults(call.alias, call.tool) : BackendReturns(raw)
    \/ BackendRaises
    \/ EndOfParts
    \/ EndOfPartsWriteFails
    \/ \E f \in Followups : FollowupResponds(f)
    \/ FollowupFails

Spec == Init /\ [][Next]_vars

-----------------------------------------------------------------------------
(* The conversation loop with the /session commands *)

\* session names the user may type
SessionNames == { <<"work">> }

\* the names a /session command may be given: a typed one or a stored one
CommandNames == SessionNames \cup DOMAIN files

ShortResponses ==
    { <<TextPart(<<"Hello.">>)>>, <<ToolUse("1", local_read_file, EmptyDict)>> }

ShortFollowups == { <<TextPart(<<"Done.">>)>> }

ShortResults == { RawResult(<<TextContent(<<"plain text">>)>>, PyNone) }

NextSession ==
    \/ Exit
    \/ Tick
    \/ \E u \in UserTexts : UserMessage(u)
    \/ \E r \in ShortResponses : ModelResponds(r)
    \/ ModelFails
    \/ ProcessPart
    \/ \E raw \in ShortResults : BackendReturns(raw)
    \/ BackendRaises
    \/ EndOfParts
    \/ EndOfPartsWriteFails
    \/ \E f \in ShortFollowups : FollowupResponds(f)
    \/ FollowupFails
    \/ \E n \in SessionNames \cup {None} : SessionNew(n)
    \/ \E n \in CommandNames : SessionLoad(n)
    \/ SessionList
    \/ \E n \in CommandNames : SessionDelete(n)
    \/ \E n \in CommandNames : SessionExport(n)

SpecSession == Init /\ [][NextSession]_vars

-----------------------------------------------------------------------------
(* The registry on its own: add_server with any alias, and the routing of the
   advertised names *)

\* the loop is not running
NoLoop ==
    /\ now = 0
    /\ files = <<>>
    /\ current_session_file = None
    /\ history = <<>>
    /\ pc = "NotStarted"
    /\ resp = <<>> /\ idx = 0 /\ handled = FALSE
    /\ assistant_content = <<>> /\ tool_results = <<>>
    /\ call = NoCall /\ tool_result = PyNone /\ followup = <<>>
    /\ exc = NoExc
    /\ backendCalls = <<>> /\ modelCalls = 0
    /\ output = NoOutput
    /\ commandCount = 0

loopVars == <<files, current_session_file, history, pc, resp, idx, handled,
              assistant_content, tool_results, call, tool_result, followup, exc,
              backendCalls, modelCalls, now, output, commandCount>>

\* aliases, targets and tool listings add_server is called with
RegAliases  == { <<"fs">>, <<"fs", SEP, "x">> }
RegTargets  == { "fs_server.py", "other_server.py" }
RegListings == { <<>>, << <<"read">> >>, << <<"read">>, <<"x", SEP, "read">> >> }

\* lines 158-173: add_server, the provider listing its tools
AddServer(alias, target, listed) ==
    /\ regLog.n < MaxRegistrations
    /\ servers' = add_server_servers(servers, alias, target)
    /\ tools' = add_server_tools(tools, alias, listed)
    /\ regLog' = [op |-> "add_server", n |-> regLog.n + 1, alias |-> alias, tool |-> None,
                  by |-> None, wasRegistered |-> alias \in DOMAIN servers,
                  outcome |-> "registered"]
    /\ UNCHANGED <<loopVars, naming, mapCall, flightVars>>

\* lines 158-163: add_server, the provider failing to connect or to list its
\* tools; the exception leaves add_server after line 160 has run
AddServerFails(alias, target) ==
    /\ regLog.n < MaxRegistrations
    /\ servers' = add_server_servers(servers, alias, target)
    /\ tools' = tools
    /\ regLog' = [op |-> "add_server", n |-> regLog.n + 1, alias |-> alias, tool |-> None,
                  by |-> None, wasRegistered |-> alias \in DOMAIN servers,
                  outcome |-> "raised"]
    /\ UNCHANGED <<loopVars, naming, mapCall, flightVars>>

\* lines 326-346 and 271-275: the model requests the i-th advertised tool by
\* its qualified name, and the request is routed
RouteAdvertised(i) ==
    /\ i \in 1..Len(tools)
    /\ LET parsed == parse_tool_name(get_tools_for_claude(tools)[i])
       IN  regLog' = [op |-> "route", n |-> regLog.n, alias |-> parsed[1],
                      tool |-> parsed[2], by |-> tools[i].server,
                      wasRegistered |-> IsRegistered(servers, parsed[1]),
                      outcome |-> IF ~Truthy(parsed[1]) THEN "skipped"
                                  ELSE IF IsRegistered(servers, parsed[1])
                                       THEN "dispatched" ELSE UnknownProviderError]
    /\ UNCHANGED <<regVars, loopVars, naming, mapCall, flightVars>>

InitRegistry ==
    /\ NoLoop
    /\ servers = <<>>
    /\ tools = <<>>
    /\ regLog = IdleRegLog
    /\ naming = IdleNaming
    /\ mapCall = IdleMapCall
    /\ loaded_datasets = <<>>
    /\ flightLog = <<>>

NextRegistry ==
    \/ \E a \in RegAliases, t \in RegTargets, l \in RegListings : AddServer(a, t, l)
    \/ \E a \in RegAliases, t \in RegTargets : AddServerFails(a, t)
    \/ \E i \in 1..Len(tools) : RouteAdvertised(i)

SpecRegistry == InitRegistry /\ [][NextRegistry]_vars

-----------------------------------------------------------------------------
(* Qualified names on their own: composing and splitting *)

\* the strings of at most n pieces over a letter and the separator
Strings(n) == UNION { [1..k -> {"a", SEP}] : k \in 0..n }

\* get_tools_for_claude, line 331, for one tool
Compose ==
    /\ naming.step = "input"
    /\ naming' = [naming EXCEPT !.step = "composed",
                                !.qualified = claude_tool_name(naming.alias, naming.tool)]
    /\ UNCHANGED <<regVars, loopVars, regLog, mapCall, flightVars>>

\* parse_tool_name of the composed name, line 529
Split ==
    /\ naming.step = "composed"
    /\ naming' = [naming EXCEPT !.step = "split",
                                !.parsed = parse_tool_name(naming.qualified)]
    /\ UNCHANGED <<regVars, loopVars, regLog, mapCall, flightVars>>

InitNaming ==
    /\ NoLoop
    /\ servers = <<>>
    /\ tools = <<>>
    /\ regLog = IdleRegLog
    /\ mapCall = IdleMapCall
    /\ loaded_datasets = <<>>
    /\ flightLog = <<>>
    /\ naming \in { [step |-> "input", alias |-> a, tool |-> t, qualified |-> <<>>,
                     parsed |-> <<None, <<>>>>] :
                    a \in Strings(MaxAliasLen), t \in Strings(MaxNameLen) }

NextNaming == Compose \/ Split

SpecNaming == InitNaming /\ [][NextNaming]_vars

-----------------------------------------------------------------------------
(* main() from its start: setup_mcp(), the first session, then the loop *)

SetupError == "Failed to setup MCP manager"

\* lines 444-450: the next add_server of setup_mcp, the provider listing its
\* tools
SetupAddServer ==
    /\ pc = "NotStarted"
    /\ regLog.n < Len(SetupAliases)
    /\ LET alias == SetupAliases[regLog.n + 1]
       IN  /\ servers' = add_server_servers(servers, alias, SetupTargets[regLog.n + 1])
           /\ tools' = add_server_tools(tools, alias, SetupListing(alias))
           /\ regLog' = [op |-> "add_server", n |-> regLog.n + 1, alias |-> alias,
                         tool |-> None, by |-> None,
                         wasRegistered |-> alias \in DOMAIN servers,
                         outcome |-> "registered"]
    /\ UNCHANGED <<loopVars, naming, mapCall, flightVars>>

\* lines 444-450, 158-163 and 611-613: the next add_server of setup_mcp, the
\* provider failing to connect or to list its tools; nothing between
\* add_server and the outer handler of main() catches the exception
SetupAddServerFails ==
    /\ pc = "NotStarted"
    /\ regLog.n < Len(SetupAliases)
    /\ LET alias == SetupAliases[regLog.n + 1]
       IN  /\ servers' = add_server_servers(servers, alias, SetupTargets[regLog.n + 1])
           /\ regLog' = [op |-> "add_server", n |-> regLog.n + 1, alias |-> alias,
                         tool |-> None, by |-> None,
                         wasRegistered |-> alias \in DOMAIN servers,
                         outcome |-> "raised"]
    /\ pc' = "Failed"
    /\ exc' = SetupError
    /\ UNCHANGED <<tools, storeVars, turnVars, history, now, naming, mapCall, flightVars, output,
                   commandCount>>

\* lines 458-474: setup_mcp has returned; the first session is created and
\* the loop starts
StartLoop ==
    /\ pc = "NotStarted"
    /\ regLog.n = Len(SetupAliases)
    /\ files' = create_new_session(files, None)
    /\ current_session_file' = AutoName(now)
    /\ pc' = "AwaitingInput"
    /\ UNCHANGED <<regVars, turnVars, history, exc, now, regLog, naming, mapCall, flightVars, output,
                   commandCount>>

InitSetup ==
    /\ NoLoop
    /\ servers = <<>>
    /\ tools = <<>>
    /\ regLog = IdleRegLog
    /\ naming = IdleNaming
    /\ mapCall = IdleMapCall
    /\ loaded_datasets = <<>>
    /\ flightLog = <<>>

NextSetup ==
    \/ SetupAddServer
    \/ SetupAddServerFails
    \/ StartLoop
    \/ Next

SpecSetup == InitSetup /\ [][NextSetup]_vars

-----------------------------------------------------------------------------
(* _map_parameters on its own: the arguments of a tool request mapped once,
   mapped again, and mapped when supplied in another order *)

\* tool names call_tool is given: with a rename table, and one without
echo == <<"echo">>
MappedTools == { read_file, git_status, search_flights, echo }

\* keys and values of the arguments a tool request may carry
ArgKeys   == { "path", "file_path", "directory", "origin", "from_city", "limit" }
ArgValues == { "notes.txt", "b" }

\* the dicts of at most n items: a dict holds a key once
Dicts(n) ==
    { d \in UNION { [1..k -> ArgKeys \X ArgValues] : k \in 0..n } :
        \A i, j \in 1..Len(d) : i # j => d[i][1] # d[j][1] }

\* the same items supplied in every order
Reorderings(d) == { [i \in 1..Len(d) |-> d[f[i]]] : f \in Permutations(1..Len(d)) }

\* line 278: call_tool maps the supplied arguments
MapParameters ==
    /\ mapCall.step = "input"
    /\ mapCall' = [mapCall EXCEPT !.step = "mapped",
                      !.mapped_params = _map_parameters(mapCall.tool_name, mapCall.params)]
    /\ UNCHANGED <<regVars, loopVars, regLog, naming, flightVars>>

\* the mapped arguments are mapped again for the same tool
MapAgain ==
    /\ mapCall.step = "mapped"
    /\ mapCall' = [mapCall EXCEPT !.step = "mapped_again",
                      !.again = _map_parameters(mapCall.tool_name, mapCall.mapped_params)]
    /\ UNCHANGED <<regVars, loopVars, regLog, naming, flightVars>>

\* the same arguments reach call_tool in the order d
MapReordered(d) ==
    /\ mapCall.step = "mapped"
    /\ mapCall' = [mapCall EXCEPT !.step = "reordered",
                      !.reordered = d,
                      !.mapped_reordered = _map_parameters(mapCall.tool_name, d)]
    /\ UNCHANGED <<regVars, loopVars, regLog, naming, flightVars>>

InitMapping ==
    /\ NoLoop
    /\ servers = <<>>
    /\ tools = <<>>
    /\ regLog = IdleRegLog
    /\ naming = IdleNaming
    /\ loaded_datasets = <<>>
    /\ flightLog = <<>>
    /\ mapCall \in { [IdleMapCall EXCEPT !.step = "input", !.tool_name = t, !.params = d] :
                     t \in MappedTools, d \in Dicts(MaxArgs) }

NextMapping ==
    \/ MapParameters
    \/ MapAgain
    \/ \E d \in Reorderings(mapCall.params) : MapReordered(d)

SpecMapping == InitMapping /\ [][NextMapping]_vars

-----------------------------------------------------------------------------
(* The flight-data server: src/main.py and FlightDataProcessor of
   src/flightbooking.py *)

\* number of tool calls the server answers
MaxFlightCalls == 3
\* most flights of a CSV file
MaxFlights == 1

Filenames == { "flights.csv", "other.csv" }

\* what load_and_process_flights finds for a filename in the data directory:
\* no file, a file pd.read_csv or _process_flight_data raises on, or a CSV
\* file with some flights
DiskOutcomes ==
    { [kind |-> "missing", flights |-> 0], [kind |-> "raises", flights |-> 0] }
    \cup { [kind |-> "csv", flights |-> n] : n \in 0..MaxFlights }

\* the processed DataFrame of a CSV file
DataFrame(disk) == [flights |-> disk.flights]
NoDataFrame == [flights |-> -1]

\* a wrong load_and_process_flights: the file is entered in loaded_datasets as
\* soon as it is found, before it is read and processed
load_and_process_flights_eager(datasets, filename, disk) ==
    CASE disk.kind = "missing" ->
            [loaded_datasets |-> datasets, ok |-> FALSE,
             text |-> <<"File ", filename, " not found in ", "data">>]
      [] disk.kind = "raises" ->
            [loaded_datasets |-> [f \in (DOMAIN datasets) \cup {filename} |->
                                     IF f = filename THEN DataFrame(disk) ELSE datasets[f]],
             ok |-> FALSE,
             text |-> <<"Error loading ", filename, ": ", "exception">>]
      [] disk.kind = "csv" ->
            [loaded_datasets |-> [f \in (DOMAIN datasets) \cup {filename} |->
                                     IF f = filename THEN DataFrame(disk) ELSE datasets[f]],
             ok |-> TRUE,
             text |-> <<"Successfully loaded ", filename, ": ", ToString(disk.flights),
                        " flights">>]

\* FlightDataProcessor.load_and_process_flights: loaded_datasets after the
\* call and the text returned
load_and_process_flights(datasets, filename, disk) ==
    CASE disk.kind = "missing" ->
            [loaded_datasets |-> datasets, ok |-> FALSE,
             text |-> <<"File ", filename, " not found in ", "data">>]
      [] disk.kind = "raises" ->
            [loaded_datasets |-> datasets, ok |-> FALSE,
             text |-> <<"Error loading ", filename, ": ", "exception">>]
      [] disk.kind = "csv" ->
            [loaded_datasets |-> [f \in (DOMAIN datasets) \cup {filename} |->
                                     IF f = filename THEN DataFrame(disk) ELSE datasets[f]],
             ok |-> TRUE,
             text |-> <<"Successfully loaded ", filename, ": ", ToString(disk.flights),
                        " flights">>]

\* the tools that take the filename of a loaded dataset
FlightQueries == { "flight_summary", "cheapest_flights", "search_flights" }

\* get_flight_summary, find_cheapest_flights (and the other methods of the
\* processor) and search_flights of main.py: the not-loaded message, or an
\* answer computed from the DataFrame stored under the filename
dataset_query(datasets, tool, filename) ==
    IF filename \notin DOMAIN datasets
    THEN [df |-> NoDataFrame, text |-> <<"Dataset ", filename, " not loaded.">>]
    ELSE [df |-> datasets[filename],
          text |-> <<tool, " over ", ToString(datasets[filename].flights), " flights">>]

\* main.py lines 18-25: the tool load_flight_data
LoadFlightData(filename, disk) ==
    /\ Len(flightLog) < MaxFlightCalls
    /\ LET r == load_and_process_flights(loaded_datasets, filename, disk)
       IN  /\ loaded_datasets' = r.loaded_datasets
           /\ flightLog' = Append(flightLog,
                                  [op |-> "load_flight_data", filename |-> filename,
                                   ok |-> r.ok, df |-> DataFrame(disk), text |-> r.text])
    /\ UNCHANGED <<regVars, loopVars, regLog, naming, mapCall>>

\* main.py lines 27-45 and 95-106: a tool that queries a dataset
QueryDataset(tool, filename) ==
    /\ Len(flightLog) < MaxFlightCalls
    /\ LET r == dataset_query(loaded_datasets, tool, filename)
       IN  flightLog' = Append(flightLog,
                               [op |-> tool, filename |-> filename,
                                ok |-> filename \in DOMAIN loaded_datasets,
                                df |-> r.df, text |-> r.text])
    /\ UNCHANGED <<regVars, loopVars, regLog, naming, mapCall, loaded_datasets>>

\* the server process after its start: FlightDataProcessor("data")
InitFlights ==
    /\ NoLoop
    /\ servers = <<>>
    /\ tools = <<>>
    /\ regLog = IdleRegLog
    /\ naming = IdleNaming
    /\ mapCall = IdleMapCall
    /\ loaded_datasets = <<>>
    /\ flightLog = <<>>

NextFlights ==
    \/ \E f \in Filenames, d \in DiskOutcomes : LoadFlightData(f, d)
    \/ \E t \in FlightQueries, f \in Filenames : QueryDataset(t, f)

SpecFlights == InitFlights /\ [][NextFlights]_vars

-----------------------------------------------------------------------------
(* Properties *)

RECURSIVE ToolRequestIds(_)
\* the ids of the tool requests of a response content, in order
ToolRequestIds(content) ==
    IF content = <<>> THEN <<>>
    ELSE (IF Head(content).type = "tool_use" THEN <<Head(content).id>> ELSE <<>>)
         \o ToolRequestIds(Tail(content))

\* the tool_use_ids of a list of result segments, in order
ResultIds(results) == [j \in 1..Len(results) |-> results[j].tool_use_id]

\* the qualified name of a tool request does not split into (alias, tool)
Malformed(part) == part.type = "tool_use" /\ ~Truthy(parse_tool_name(part.name)[1])

\* C1: when the followup call is made, the last message of the history is one
\* user message whose result segments carry the ids of the tool requests of
\* the response, one per request and in the same order.
C1_ResultsMatchRequests ==
    pc = "ModelRespondingFollowup" =>
        LET m == history[Len(history)]
        IN  /\ m.role = "user"
            /\ m.content.isList
            /\ ResultIds(m.content.list) = ToolRequestIds(resp)

\* C2: a failure of the backend call (the transport failing or the provider
\* reporting an error) is never the exception the loop's handler catches: the
\* dispatcher has turned it into a result and the turn goes on.
C2_BackendFailureBecomesResult == exc # BackendError

\* C3: the step that dispatches a tool call to an alias that is not
\* registered raises the unknown-provider error, contacts no backend, and
\* leaves the loop awaiting input.
C3_UnknownProviderKeepsLoop ==
    [][ (call' # call /\ call' # NoCall /\ call'.alias \notin DOMAIN servers)
        => /\ exc' = UnknownProviderError
           /\ pc' = "AwaitingInput"
           /\ backendCalls' = backendCalls ]_vars

\* C3 witness: a turn dispatched one call to a backend, then one to an
\* unregistered alias, and the loop awaits input again.
C3_Witness ==
    /\ exc = UnknownProviderError
    /\ pc = "AwaitingInput"
    /\ call.alias \notin DOMAIN servers
    /\ Len(backendCalls) = 1

\* C4: once the loop has passed a tool request whose name does not split, a
\* result segment for its id has been collected.
C4_MalformedNameRecorded ==
    \A i \in 1..Len(resp) :
        (pc \in {"ProcessingParts", "Dispatching", "ModelRespondingFollowup"}
           /\ i < idx /\ Malformed(resp[i]))
        => \E j \in 1..Len(tool_results) : tool_results[j].tool_use_id = resp[i].id

\* a text holds the timeout message of run_git_command
ContainsTimeout(text) == \E i \in 1..Len(text) : text[i] = TimedOutText

\* a result segment is flagged as an error
IsErrorFlagged(seg) == "is_error" \in DOMAIN seg /\ seg.is_error

\* C5: a collected result whose payload is the provider's timeout message is
\* flagged as an error.
C5_TimeoutFlaggedAsError ==
    \A j \in 1..Len(tool_results) :
        ContainsTimeout(tool_results[j].content) => IsErrorFlagged(tool_results[j])

\* C6: the normalised payload of every raw provider response is a value
\* json.dumps can encode.
C6_PayloadSerializable == json_dumps(tool_result).ok

\* C7: in every stored session, message_count is the length of history.
C7_MessageCountIsLength ==
    \A n \in DOMAIN files : files[n].message_count = Len(files[n].history)

\* C7 witness: two sessions are stored, one of them after several appends.
C7_Witness ==
    /\ Cardinality(DOMAIN files) >= 2
    /\ \E n \in DOMAIN files : Len(files[n].history) >= 3

\* C8: for an alias without separator and any tool name, splitting the
\* composed qualified name gives back the alias and the tool name.
C8_SplitCompose ==
    (naming.step = "split" /\ ~HasSep(naming.alias))
        => naming.parsed = <<naming.alias, naming.tool>>

\* C8 witness: a separator-free alias and a tool name holding the separator
\* have been composed and split.
C8_Witness ==
    /\ naming.step = "split"
    /\ naming.alias # <<>> /\ ~HasSep(naming.alias)
    /\ HasSep(naming.tool)

\* C9: registering an alias that holds the separator is rejected, no
\* registered alias holds the separator, and an advertised name is routed to
\* the provider that advertised it.
C9_AliasesSeparatorFree ==
    /\ (regLog.op = "add_server" /\ HasSep(regLog.alias)) => regLog.outcome = "rejected"
    /\ \A a \in DOMAIN servers : ~HasSep(a)
    /\ (regLog.op = "route" /\ regLog.outcome = "dispatched") => regLog.alias = regLog.by

\* C10: add_server for an alias that is already registered fails with the
\* duplicate-alias error and leaves the servers and the tools as they were.
C10_DuplicateAliasRejected ==
    [][ (regLog'.op = "add_server" /\ regLog'.n = regLog.n + 1
           /\ regLog'.alias \in DOMAIN servers)
        => /\ regLog'.outcome = "DuplicateAliasError"
           /\ servers' = servers
           /\ tools' = tools ]_vars

\* C11: no two tool descriptors of the registry have the same (alias, name),
\* and no two names advertised to the model are the same.
C11_CompositeKeyUnique ==
    \A i, j \in 1..Len(tools) :
        i # j => /\ <<tools[i].server, tools[i].name>> # <<tools[j].server, tools[j].name>>
                 /\ get_tools_for_claude(tools)[i] # get_tools_for_claude(tools)[j]

\* the backend key the rename table of a tool gives a supplied key
RenamedKey(tool_name, key) ==
    IF key \in DOMAIN parameter_mappings(tool_name)
    THEN parameter_mappings(tool_name)[key]
    ELSE key

\* the items the rule of the rename table emits for the supplied arguments:
\* every key under its backend key with its own value, unless the rename is
\* null
ReferenceItems(tool_name, params) ==
    { <<RenamedKey(tool_name, params[i][1]), params[i][2]>> :
        i \in { j \in 1..Len(params) : RenamedKey(tool_name, params[j][1]) # "None" } }

\* the keys and the items of a dict
Keys(d)  == { d[i][1] : i \in 1..Len(d) }
Items(d) == { d[i] : i \in 1..Len(d) }

\* Python's == on two dicts
DictEq(a, b) == Items(a) = Items(b)

\* C12: the mapped arguments are the reference mapping of the supplied ones:
\* they hold exactly the emitted backend keys, each once and with a value the
\* rule emits under it (so, when no two supplied keys meet on one backend
\* key, exactly the emitted items), and for a tool without rename table they
\* are the supplied arguments unchanged.
C12_MatchesReference ==
    mapCall.step = "mapped" =>
        LET ref == ReferenceItems(mapCall.tool_name, mapCall.params)
            out == mapCall.mapped_params
        IN  /\ Keys(out) = { e[1] : e \in ref }
            /\ Cardinality(Keys(out)) = Len(out)
            /\ Items(out) \subseteq ref
            /\ Cardinality({ e[1] : e \in ref }) = Cardinality(ref) => Items(out) = ref
            /\ parameter_mappings(mapCall.tool_name) = EmptyDict => out = mapCall.params

\* C12 witness: read_file with {path: notes.txt} gave {file_path: notes.txt}.
C12_Witness ==
    /\ mapCall.step = "mapped"
    /\ mapCall.tool_name = read_file
    /\ mapCall.params = << <<"path", "notes.txt">> >>
    /\ mapCall.mapped_params = << <<"file_path", "notes.txt">> >>

\* the rename targets of a tool are none of its rename sources
TargetsDisjoint(tool_name) ==
    \A k \in DOMAIN parameter_mappings(tool_name) :
        parameter_mappings(tool_name)[k] \notin DOMAIN parameter_mappings(tool_name)

\* C13: for a tool whose rename targets are none of its rename sources,
\* mapping the mapped arguments again gives the mapped arguments.
C13_Idempotent ==
    (mapCall.step = "mapped_again" /\ TargetsDisjoint(mapCall.tool_name))
        => DictEq(mapCall.again, mapCall.mapped_params)

\* C13 witness: two arguments, one of them renamed by the first mapping, have
\* been mapped twice.
C13_Witness ==
    /\ mapCall.step = "mapped_again"
    /\ TargetsDisjoint(mapCall.tool_name)
    /\ Len(mapCall.params) = 2
    /\ ~DictEq(mapCall.mapped_params, mapCall.params)

\* C14: the same arguments supplied in another order are mapped to the same
\* backend arguments.
C14_OrderIndependent ==
    mapCall.step = "reordered" => DictEq(mapCall.mapped_reordered, mapCall.mapped_params)

\* a stored message is the user message that started a turn (line 506)
IsTurnStart(msg) == msg.role = "user" /\ msg.metadata = "none"

\* C15: the step in which a model call fails (the first call of the turn or
\* the followup call) leaves the loop awaiting input and the session holding
\* the turn's user message with no assistant message after it.
C15_ModelFailureKeepsSession ==
    [][ (modelCalls' = modelCalls + 1 /\ exc' = ModelError)
        => LET h == files'[current_session_file'].history
           IN  /\ pc' = "AwaitingInput"
               /\ \E i \in 1..Len(h) :
                     /\ IsTurnStart(h[i])
                     /\ \A j \in (i + 1)..Len(h) : h[j].role # "assistant" ]_vars

\* the dispatched calls of the turn whose result has not been collected
Uncollected ==
    { k \in 1..Len(backendCalls) :
        \A j \in 1..Len(tool_results) : tool_results[j].tool_use_id # backendCalls[k].id }

\* the position in the response of the tool request with the given id
PositionOf(id) == CHOOSE i \in 1..Len(resp) : resp[i].type = "tool_use" /\ resp[i].id = id

\* C16: the calls reach the backends in the order of the requests in the
\* response, the result of every call but the last has been collected before
\* the next call was made, and a call is awaited only while the loop stands
\* at its request.
C16_SequentialInOrder ==
    /\ \A k, l \in 1..Len(backendCalls) :
          k < l => PositionOf(backendCalls[k].id) < PositionOf(backendCalls[l].id)
    /\ Uncollected \subseteq {Len(backendCalls)}
    /\ pc = "Dispatching" =>
          /\ Uncollected = {Len(backendCalls)}
          /\ PositionOf(backendCalls[Len(backendCalls)].id) = idx

\* C16 witness: two requests of one response have been dispatched and both
\* results collected.
C16_Witness ==
    /\ Len(backendCalls) = 2
    /\ Len(tool_results) = 2
    /\ Uncollected = {}

\* C17: a /session load of a name that has no stored session fails with the
\* session-not-found error of load_session and loads nothing: the current
\* session and the in-memory history stay as they were.
C17_LoadMissingNotFound ==
    [][ (commandCount' = commandCount + 1 /\ output'.kind = "load"
           /\ output'.arg \notin DOMAIN files)
        => /\ output'.error = SessionNotFoundError
           /\ current_session_file' = current_session_file
           /\ history' = history ]_vars

\* C17 witness: a name with no stored session has been asked for, after a
\* turn, and the load failed.
C17_Witness ==
    /\ output.kind = "load"
    /\ output.arg \notin DOMAIN files
    /\ output.error = SessionNotFoundError
    /\ history # <<>>

\* C18: a /session new without a name makes current a stored session whose
\* name is "chat_" followed by the reading of the clock in seconds, with an
\* empty history and message_count 0.
C18_AutoNamedEmpty ==
    [][ (commandCount' = commandCount + 1 /\ output'.kind = "new" /\ ~Truthy(output'.arg))
        => /\ output'.session = <<"chat_", ToString(now \div TicksPerSecond)>>
           /\ current_session_file' = output'.session
           /\ output'.session \in DOMAIN files'
           /\ files'[output'.session].history = <<>>
           /\ files'[output'.session].message_count = 0 ]_vars

\* C18 witness: a session has been created without a name after the clock
\* moved, next to the session of the start.
C18_Witness ==
    /\ output.kind = "new"
    /\ ~Truthy(output.arg)
    /\ now > 0
    /\ output.session \in DOMAIN files
    /\ Cardinality(DOMAIN files) >= 2

\* a is a prefix of b
IsPrefix(a, b) == Len(a) <= Len(b) /\ SubSeq(b, 1, Len(a)) = a

\* C19: in every step, the history of every session that stays stored is
\* extended at its end or left alone: no earlier message is removed, edited or
\* moved.
C19_AppendOnly ==
    [][ \A n \in (DOMAIN files) \cap (DOMAIN files') :
            IsPrefix(files[n].history, files'[n].history) ]_vars

\* C20: a step that removes a stored session, or leaves it stored without
\* the messages it held, is a /session delete of that session.
C20_DestroyedOnlyByDelete ==
    [][ \A n \in DOMAIN files :
            (n \notin DOMAIN files' \/ ~IsPrefix(files[n].history, files'[n].history))
            => /\ commandCount' = commandCount + 1
               /\ output'.kind = "delete"
               /\ output'.arg = n ]_vars

\* C21: a /session list prints one summary per stored session, no session
\* twice, a session updated later before a session updated earlier.
C21_ListSortedComplete ==
    [][ (commandCount' = commandCount + 1 /\ output'.kind = "list")
        => LET l == output'.names
           IN  /\ Len(l) = Cardinality(DOMAIN files)
               /\ { l[i] : i \in 1..Len(l) } = DOMAIN files
               /\ \A i, j \in 1..Len(l) :
                     i < j => files[l[i]].last_updated >= files[l[j]].last_updated ]_vars

\* C21 witness: two sessions updated at different times have been listed, the
\* later one first.
C21_Witness ==
    /\ output.kind = "list"
    /\ Len(output.names) = 2
    /\ DOMAIN files = { output.names[1], output.names[2] }
    /\ files[output.names[1]].last_updated > files[output.names[2]].last_updated

\* C22: an add_server of the setup that raises is fatal when it is the first
\* one; when it is a later one, main() goes on, the providers registered
\* before stay registered and the tools registered before stay advertised.
C22_LaterFailureExcludesOnly ==
    [][ (regLog'.op = "add_server" /\ regLog'.n = regLog.n + 1 /\ regLog'.outcome = "raised")
        => IF regLog'.n = 1
           THEN pc' = "Failed"
           ELSE /\ pc' # "Failed"
                /\ tools' = tools
                /\ \A a \in DOMAIN servers : a \in DOMAIN servers' ]_vars

\* the calls of the log before the k-th that loaded the filename of the k-th
\* successfully
LoadsBefore(k) ==
    { i \in 1..(k - 1) : /\ flightLog[i].op = "load_flight_data"
                         /\ flightLog[i].filename = flightLog[k].filename
                         /\ flightLog[i].ok }

\* the greatest element of a non-empty set of numbers
Latest(S) == CHOOSE i \in S : \A j \in S : j <= i

C24_ToolTurnOrder ==
    (pc = "AwaitingInput" /\ exc = NoExc /\ modelCalls >= 1 /\ ToolRequestIds(resp) # <<>>)
    => LET h == files[current_session_file].history
           n == Len(h)
       IN  /\ n >= 4
           /\ IsTurnStart(h[n - 3])
           /\ h[n - 2] = Message("assistant", List(resp), "has_tool_calls")
           /\ h[n - 1].role = "user"
           /\ h[n - 1].content.isList
           /\ ResultIds(h[n - 1].content.list) = ToolRequestIds(resp)
           /\ h[n].role = "assistant"
           /\ ~h[n].content.isList

\* the tool requests among the segments of a content
HasToolRequest(content) == \E i \in 1..Len(content) : content[i].type = "tool_use"

\* C25: in every step of a turn, the model has been called at most twice; a
\* step that dispatches a tool is taken after the first response and before any
\* followup response, for a request among the segments of the first response;
\* and the step that receives the followup response dispatches nothing and ends
\* the processing of the turn, whatever tool requests the followup holds.
C25_OneToolRound ==
    [][ /\ modelCalls' <= 2
        /\ (Len(backendCalls') > Len(backendCalls)) =>
              /\ modelCalls = 1 /\ modelCalls' = 1
              /\ followup = <<>> /\ followup' = <<>>
              /\ resp' = resp
              /\ Len(backendCalls') = Len(backendCalls) + 1
              /\ \E i \in 1..Len(resp) :
                    /\ resp[i].type = "tool_use"
                    /\ backendCalls'[Len(backendCalls')].id = resp[i].id
        /\ (followup = <<>> /\ followup' # <<>>) =>
              /\ backendCalls' = backendCalls
              /\ pc' \in {"AwaitingInput", "Failed"}
        /\ (followup # <<>> /\ pc' \notin {"AwaitingInput", "Failed", "Ended"}) =>
              followup' = <<>> /\ modelCalls' = 0 ]_vars

\* a turn has ended whose followup response held a tool request: the model was
\* called twice and the only dispatches are those of the first response
C25_Witness ==
    /\ pc = "AwaitingInput" /\ exc = NoExc
    /\ modelCalls = 2
    /\ HasToolRequest(followup)
    /\ Len(backendCalls) = Len(ToolRequestIds(resp))
    /\ Len(backendCalls) >= 1

\* C26: while a response without tool requests is processed nothing is
\* dispatched and no followup is received, and the step that ends its
\* processing appends one assistant message, holding the text segments of the
\* response joined in order, to the history and to the stored session, with
\* the model called once, and leaves the loop awaiting input.
C26_PlainReply ==
    [][ (pc = "ProcessingParts" /\ ~HasToolRequest(resp)) =>
           /\ backendCalls' = <<>> /\ followup' = <<>> /\ modelCalls' = 1
           /\ pc' \in {"ProcessingParts", "AwaitingInput"}
           /\ (idx > Len(resp)) =>
                 /\ pc' = "AwaitingInput" /\ exc' = NoExc
                 /\ history' = Append(history,
                                 ClaudeMessage("assistant", Str(JoinText(resp))))
                 /\ files'[current_session_file].history =
                       Append(files[current_session_file].history,
                              Message("assistant", Str(JoinText(resp)), "none"))
                 /\ current_session_file' = current_session_file ]_vars

\* a turn has ended whose response held two different text segments and no
\* tool request: the session ends with the user's input and their concatenation
C26_Witness ==
    /\ pc = "AwaitingInput" /\ exc = NoExc /\ modelCalls = 1
    /\ resp = <<TextPart(<<"I will look. ">>), TextPart(<<"Nothing to do.">>)>>
    /\ backendCalls = <<>>
    /\ LET h == files[current_session_file].history
       IN  /\ Len(h) >= 2
           /\ IsTurnStart(h[Len(h) - 1])
           /\ h[Len(h)] = Message("assistant", Str(<<"I will look. ", "Nothing to do.">>), "none")

\* a text without any character
IsEmptyText(text) == \A i \in 1..Len(text) : text[i] = ""

\* the last message of the active stored session
LastStored(fs, cur) == fs[cur].history[Len(fs[cur].history)]

\* C27: the step that receives the followup response and ends the turn appends
\* one assistant message to the history and to the session; its text is the
\* text segments of the followup joined in order, or the fallback string when
\* that text is empty or holds only whitespace; the message is never blank.
C27_FollowupAnswer ==
    [][ (pc = "ModelRespondingFollowup" /\ followup' # <<>> /\ pc' = "AwaitingInput") =>
           LET t == JoinText(followup')
               answer == IF IsBlank(t) THEN FallbackText ELSE t
           IN  /\ files'[current_session_file].history =
                     Append(files[current_session_file].history,
                            Message("assistant", Str(answer), "none"))
               /\ history' = Append(history, ClaudeMessage("assistant", Str(answer)))
               /\ ~IsBlank(answer) ]_vars

\* C27 as stated: the fallback string replaces the joined text only when the
\* joined text is empty; any other joined text is the stored answer.
C27_FallbackOnlyWhenEmpty ==
    [][ (pc = "ModelRespondingFollowup" /\ followup' # <<>> /\ pc' = "AwaitingInput") =>
           LET t == JoinText(followup')
               answer == IF IsEmptyText(t) THEN FallbackText ELSE t
           IN  LastStored(files', current_session_file) =
                  Message("assistant", Str(answer), "none") ]_vars

\* a tool turn has ended whose followup held only whitespace, and another
\* whose followup held only a tool request: the stored answer is the fallback
C27_Witness ==
    /\ pc = "AwaitingInput" /\ exc = NoExc /\ modelCalls = 2
    /\ followup \in { <<TextPart(<<" ">>)>>, <<ToolUse("1", local_read_file, EmptyDict)>> }
    /\ LastStored(files, current_session_file) =
          Message("assistant", Str(FallbackText), "none")

\* the stored history of every session
StoredHistories(fs) == [n \in DOMAIN fs |-> fs[n].history]

\* C28: a step that runs /session export or /session list leaves the active
\* session, which receives the following appends, and the history of every
\* stored session as they were.
C28_ExportListKeepActive ==
    [][ (commandCount' = commandCount + 1 /\ output'.kind \in {"export", "list"}) =>
           /\ current_session_file' = current_session_file
           /\ StoredHistories(files') = StoredHistories(files) ]_vars

\* C29: whenever a model call is pending (the first call of a turn or the
\* followup call), the history held in memory, which is what the call
\* submits, is the sequence of (role, content) of the messages stored in the
\* active session.
C29_HistoryMatchesSession ==
    (pc \in {"ModelResponding", "ModelRespondingFollowup"}) =>
        /\ CanAppend(files, current_session_file)
        /\ history = claude_history(files[current_session_file].history)

\* C30: main() leaves its loop only through the exit of lines 484-487: no
\* step ends it by an exception, so every user message entered while the loop
\* awaits input starts a turn and the turn comes back to awaiting input.
C30_LoopEndsOnlyOnExit ==
    [][ /\ pc' # "Failed"
        /\ (pc = "AwaitingInput") =>
              pc' \in {"AwaitingInput", "ModelResponding", "Ended"} ]_vars

====
